---- MODULE Spec2Model ----
(***************************************************************************)
(* Blueprint room detection service (python-vision-service/app.py).        *)
(*                                                                         *)
(* Numbers.  Python floats are modelled by exact integers:                 *)
(*   - a contour area (a multiple of 0.5 in OpenCV) is kept doubled,       *)
(*     field area2 = 2 * cv2.contourArea(contour);                         *)
(*   - a room confidence and an aspect ratio, both rounded to two          *)
(*     decimals by the code, are kept in hundredths (0.8 is 80);           *)
(*   - a float comparison a / b > t is the integer comparison it equals.   *)
(* Indices are 1-based; the code's index -1 ("none") is 0 here.            *)
(* Strings that the code edits (OCR text, ids, name hints) are sequences   *)
(* of one-character strings.                                               *)
(***************************************************************************)
EXTENDS Integers, Sequences, FiniteSets, TLC

VARIABLES
    pc,               \* per request: position in detect_rooms_endpoint / detect_rooms
    req,              \* per request: the image behind blueprintUrl and the options
    rooms,            \* per request: local `rooms` of detect_rooms
    filtered_rooms,   \* per request: local `filtered_rooms`
    text_regions,     \* per request: local `text_regions`
    rooms_with_text,  \* per request: local `rooms_with_text`
    result_rooms,     \* per request: local `result_rooms`
    counts,           \* per request: locals `room_count`, `hallway_count`
    response,         \* per request: the HTTP response
    matched,          \* per request: for each ranked room, the OCR token it received
    unit              \* a direct call of one pipeline function: arguments and results

vars == <<pc, req, rooms, filtered_rooms, text_regions, rooms_with_text,
          result_rooms, counts, response, matched, unit>>

pipeline_vars == <<pc, req, rooms, filtered_rooms, text_regions, rooms_with_text,
                   result_rooms, counts, response, matched>>

----------------------------------------------------------------------------
(* Arithmetic helpers *)

Min(a, b) == IF a <= b THEN a ELSE b

Max(a, b) == IF a >= b THEN a ELSE b

\* Python round(num / den) for num >= 0, den > 0: nearest, ties to even.  With
\* two decimals (round(v, 2)) a float decides an exact tie at the third
\* decimal by its binary representation; the contours used below have no
\* such tie in their confidence or aspect ratio.
RoundHalfEven(num, den) ==
    LET q == num \div den
        r == num % den
    IN  IF 2 * r < den THEN q
        ELSE IF 2 * r > den THEN q + 1
        ELSE IF q % 2 = 0 THEN q ELSE q + 1

RECURSIVE SeqSum(_)
SeqSum(s) == IF s = <<>> THEN 0 ELSE Head(s) + SeqSum(Tail(s))

\* list.pop(idx)
Pop(s, idx) == [k \in 1..(Len(s) - 1) |-> IF k < idx THEN s[k] ELSE s[k + 1]]

\* [f(x) for x in s if p(x)] is SelectSeq; all sequences over S of length <= n
SeqsUpTo(S, n) == UNION {[1..k -> S] : k \in 0..n}

----------------------------------------------------------------------------
(* find_rooms_from_contours *)

\* The contour hierarchy cv2.findContours(RETR_TREE) returns for a forest
\* given by its parent vector: entry i has the next sibling and the first
\* child of contour i (0 when there is none).
Hierarchy(parent) ==
    [i \in 1..Len(parent) |->
        [next        |-> LET later == {j \in (i + 1)..Len(parent) : parent[j] = parent[i]}
                         IN  IF later = {} THEN 0
                             ELSE CHOOSE j \in later : \A k \in later : j <= k,
         first_child |-> LET kids == {j \in 1..Len(parent) : parent[j] = i}
                         IN  IF kids = {} THEN 0
                             ELSE CHOOSE j \in kids : \A k \in kids : j <= k]]

\* max_area = (shape[0] * shape[1]) // 2
DefaultMaxArea(img) == (img.height * img.width) \div 2

\* `if area < min_area or area > max_area: continue`
AreaInRange(c, min_area, max_area) ==
    ~(c.area2 < 2 * min_area \/ c.area2 > 2 * max_area)

\* aspect_ratio = max(w, h) / min(w, h) if min(w, h) > 0 else 0, compared with k
AspectRatioAbove(c, k) ==
    IF Min(c.w, c.h) > 0 THEN Max(c.w, c.h) > k * Min(c.w, c.h) ELSE 0 > k

\* round(aspect_ratio, 2), in hundredths
AspectRatio100(c) ==
    IF Min(c.w, c.h) > 0 THEN RoundHalfEven(100 * Max(c.w, c.h), Min(c.w, c.h)) ELSE 0

\* first while loop: walk first child, then next siblings, counting
RECURSIVE CountSiblings(_, _)
CountSiblings(hierarchy, child_idx) ==
    IF child_idx = 0 THEN 0
    ELSE 1 + CountSiblings(hierarchy, hierarchy[child_idx].next)

\* second while loop: the same walk, adding the areas (doubled)
RECURSIVE SumSiblingArea2(_, _, _)
SumSiblingArea2(contours, hierarchy, child_idx) ==
    IF child_idx = 0 \/ child_idx > Len(contours) THEN 0
    ELSE contours[child_idx].area2
         + SumSiblingArea2(contours, hierarchy, hierarchy[child_idx].next)

has_children(img, i) == img.hierarchy[i].first_child # 0

child_count(img, i) == CountSiblings(img.hierarchy, img.hierarchy[i].first_child)

child_total_area2(img, i) ==
    SumSiblingArea2(img.contours, img.hierarchy, img.hierarchy[i].first_child)

\* child_ratio > 0.4, with child_ratio = child_total_area / area if area > 0 else 0
ChildRatioSignificant(img, i) ==
    /\ img.contours[i].area2 > 0
    /\ 5 * child_total_area2(img, i) > 2 * img.contours[i].area2

\* area_ratio > 0.25, with area_ratio = area / image_area if image_area > 0 else 0
AreaRatioHuge(img, i) ==
    /\ img.height * img.width > 0
    /\ 2 * img.contours[i].area2 > img.height * img.width

\* mutation: more than three children are required
should_skip_above_three(img, i, min_area) ==
    /\ has_children(img, i)
    /\ \/ /\ child_count(img, i) > 3
          /\ img.contours[i].area2 > 2 * (min_area * 5)
          /\ ChildRatioSignificant(img, i)
       \/ AreaRatioHuge(img, i)

\* the `if has_children:` block: should_skip
should_skip(img, i, min_area) ==
    /\ has_children(img, i)
    /\ \/ /\ child_count(img, i) >= 3
          /\ img.contours[i].area2 > 2 * (min_area * 5)
          /\ ChildRatioSignificant(img, i)
       \/ AreaRatioHuge(img, i)

\* is_hallway = aspect_ratio > 3 and area > min_area * 2
\* mutation: `area > min_area`
is_hallway_above_min_area(c, min_area) == AspectRatioAbove(c, 3) /\ c.area2 > 2 * min_area

is_hallway(c, min_area) == AspectRatioAbove(c, 3) /\ c.area2 > 2 * (min_area * 2)

\* mutation: no penalty above 25% of the image
Confidence100Unpenalized(img, c) ==
    Min(95, Max(50, RoundHalfEven(2500 * c.area2, img.height * img.width)))

\* confidence, rounded to two decimals, in hundredths
Confidence100(img, c) ==
    LET image_area == img.height * img.width
    IN  IF 2 * c.area2 > image_area        \* normalized_area > 0.25
        THEN 40
        ELSE Min(95, Max(50, RoundHalfEven(2500 * c.area2, image_area)))

\* int((v / size) * 1000)
Normalize(v, size) == (v * 1000) \div size

\* mutation: both axes are scaled by the image height
bounding_box_by_height(img, c) ==
    << Normalize(c.x, img.height), Normalize(c.y, img.height),
       Normalize(c.x + c.w, img.height), Normalize(c.y + c.h, img.height) >>

bounding_box(img, c) ==
    << Normalize(c.x, img.width), Normalize(c.y, img.height),
       Normalize(c.x + c.w, img.width), Normalize(c.y + c.h, img.height) >>

\* room_data; `contour` records which contour the candidate came from
room_data(img, i, min_area) ==
    LET c == img.contours[i]
    IN  [bounding_box |-> bounding_box(img, c),
         confidence   |-> Confidence100(img, c),
         area         |-> c.area2 \div 2,
         is_hallway   |-> is_hallway(c, min_area),
         aspect_ratio |-> AspectRatio100(c),
         contour      |-> i]

\* the loop body reaches the append for contour i
Survives(img, i, min_area, max_area) ==
    /\ AreaInRange(img.contours[i], min_area, max_area)
    /\ ~should_skip(img, i, min_area)
    /\ ~(~is_hallway(img.contours[i], min_area) /\ AspectRatioAbove(img.contours[i], 15))

\* all_spaces = rooms + hallways, each in contour order
find_rooms_from_contours(img, min_area) ==
    LET max_area == DefaultMaxArea(img)
        idx      == [i \in 1..Len(img.contours) |-> i]
        kept     == SelectSeq(idx, LAMBDA i : Survives(img, i, min_area, max_area))
        data     == [k \in 1..Len(kept) |-> room_data(img, kept[k], min_area)]
    IN  SelectSeq(data, LAMBDA r : ~r.is_hallway) \o SelectSeq(data, LAMBDA r : r.is_hallway)

----------------------------------------------------------------------------
(* filter_and_rank_rooms *)

\* dict.get(key, default)
Get(d, key, default) == IF key \in DOMAIN d THEN d[key] ELSE default

\* sorted(s, key=lambda e: e[key], reverse=True): stable, equal keys keep
\* their input order
RECURSIVE InsertDesc(_, _, _)
InsertDesc(sorted, e, key) ==
    IF sorted = <<>> THEN <<e>>
    ELSE IF Head(sorted)[key] >= e[key]
         THEN <<Head(sorted)>> \o InsertDesc(Tail(sorted), e, key)
         ELSE <<e>> \o sorted

RECURSIVE SortFrom(_, _, _, _)
SortFrom(s, k, acc, key) ==
    IF k > Len(s) THEN acc
    ELSE SortFrom(s, k + 1, InsertDesc(acc, s[k], key), key)

SortedReverse(s, key) == SortFrom(s, 1, <<>>, key)

\* (x2 - x1) * (y2 - y1)
BoxArea(b) == (b[3] - b[1]) * (b[4] - b[2])

\* intersection area of two boxes, 0 unless inter_x1 < inter_x2 and inter_y1 < inter_y2
InterArea(a, b) ==
    LET inter_x1 == Max(a[1], b[1])
        inter_y1 == Max(a[2], b[2])
        inter_x2 == Min(a[3], b[3])
        inter_y2 == Min(a[4], b[4])
    IN  IF inter_x1 < inter_x2 /\ inter_y1 < inter_y2
        THEN (inter_x2 - inter_x1) * (inter_y2 - inter_y1)
        ELSE 0

\* inter_area / area > 0.05 (for inter_area > 0)
RatioAbove5Percent(inter_area, area) == area > 0 /\ 20 * inter_area > area

\* mutation: only the candidate's own ratio is tested
OverlapsThisOnly(room, existing) ==
    LET inter_area == InterArea(room.bounding_box, existing.bounding_box)
    IN  /\ inter_area > 0
        /\ RatioAbove5Percent(inter_area, BoxArea(room.bounding_box))

\* `if overlap_ratio_this > 0.05 or overlap_ratio_existing > 0.05`, where
\* overlap_ratio_existing is 0 unless existing_area > 0
Overlaps(room, existing) ==
    LET inter_area == InterArea(room.bounding_box, existing.bounding_box)
    IN  /\ inter_area > 0
        /\ \/ RatioAbove5Percent(inter_area, BoxArea(room.bounding_box))
           \/ RatioAbove5Percent(inter_area, BoxArea(existing.bounding_box))

\* mutation: the confidence filter keeps every candidate that has a confidence
IsConfidentAny(r, min_confidence) == Get(r, "confidence", 0) >= 0

\* `r.get('confidence', 0) >= min_confidence`
IsConfident(r, min_confidence) == Get(r, "confidence", 0) >= min_confidence

MAX_ROOM_AREA == 250000

\* `if room_area > MAX_ROOM_AREA: continue`
SizeOk(r) == ~(BoxArea(r.bounding_box) > MAX_ROOM_AREA)

Reverse(s) == [k \in 1..Len(s) |-> s[Len(s) + 1 - k]]

\* mutation: ascending sort, then reversed: equal areas come out in reverse order
SortByAreaThenReverse(s) == SortedReverse(Reverse(s), "area")

\* sorted(size_filtered_rooms, key=lambda r: r['area'], reverse=True)
SortByArea(s) == SortedReverse(s, "area")

\* the greedy loop over sorted_rooms, from position k with filtered_rooms so far
RECURSIVE Greedy(_, _, _, _)
Greedy(sorted_rooms, k, filtered, max_rooms) ==
    IF k > Len(sorted_rooms) THEN filtered
    ELSE LET room == sorted_rooms[k]
         IN  IF BoxArea(room.bounding_box) = 0
             THEN Greedy(sorted_rooms, k + 1, filtered, max_rooms)     \* continue
             ELSE LET has_overlap == \E e \in 1..Len(filtered) : Overlaps(room, filtered[e])
                      next == IF has_overlap THEN filtered ELSE Append(filtered, room)
                  IN  IF Len(next) >= max_rooms
                      THEN next                                          \* break
                      ELSE Greedy(sorted_rooms, k + 1, next, max_rooms)

\* mutation: the greedy loop runs over the candidates in input order
filter_and_rank_rooms_unsorted(rs, max_rooms, min_confidence) ==
    IF rs = <<>> THEN <<>>
    ELSE LET confident_rooms     == SelectSeq(rs, LAMBDA r : IsConfident(r, min_confidence))
             size_filtered_rooms == SelectSeq(confident_rooms, SizeOk)
         IN  Greedy(size_filtered_rooms, 1, <<>>, max_rooms)

filter_and_rank_rooms(rs, max_rooms, min_confidence) ==
    IF rs = <<>> THEN <<>>
    ELSE LET confident_rooms     == SelectSeq(rs, LAMBDA r : IsConfident(r, min_confidence))
             size_filtered_rooms == SelectSeq(confident_rooms, SizeOk)
             sorted_rooms        == SortByArea(size_filtered_rooms)
         IN  Greedy(sorted_rooms, 1, <<>>, max_rooms)

----------------------------------------------------------------------------
(* Strings as sequences of one-character strings *)

UpperCase == <<"A","B","C","D","E","F","G","H","I","J","K","L","M",
               "N","O","P","Q","R","S","T","U","V","W","X","Y","Z">>

LowerCase == <<"a","b","c","d","e","f","g","h","i","j","k","l","m",
               "n","o","p","q","r","s","t","u","v","w","x","y","z">>

DigitChars == <<"0","1","2","3","4","5","6","7","8","9">>

\* str.lower()
Lower(str) ==
    [k \in 1..Len(str) |->
        IF \E u \in 1..26 : UpperCase[u] = str[k]
        THEN LowerCase[CHOOSE u \in 1..26 : UpperCase[u] = str[k]]
        ELSE str[k]]

\* str.replace(" ", "_")
ReplaceSpaces(str) == [k \in 1..Len(str) |-> IF str[k] = " " THEN "_" ELSE str[k]]

\* str.strip()
RECURSIVE LStrip(_)
LStrip(str) == IF str # <<>> /\ Head(str) = " " THEN LStrip(Tail(str)) ELSE str

RECURSIVE RStrip(_)
RStrip(str) ==
    IF str # <<>> /\ str[Len(str)] = " " THEN RStrip(SubSeq(str, 1, Len(str) - 1)) ELSE str

Strip(str) == RStrip(LStrip(str))

\* str(n) for n >= 0
RECURSIVE Str(_)
Str(n) == IF n < 10 THEN <<DigitChars[n + 1]>> ELSE Str(n \div 10) \o <<DigitChars[(n % 10) + 1]>>

\* str.zfill(width)
RECURSIVE ZFill(_, _)
ZFill(str, width) == IF Len(str) >= width THEN str ELSE ZFill(<<"0">> \o str, width)

\* Python's None where a string is expected; the OCR text stored in a region
\* is never empty, so None and '' (both falsy) are one value here
None == <<>>

----------------------------------------------------------------------------
(* detect_text_regions *)

\* `if not text.strip() or data['conf'][i] < 30: continue` and
\* `if w < 10 or h < 10: continue`
TokenKept(t) ==
    /\ ~(Strip(t.text) = <<>> \/ t.conf < 30)
    /\ ~(t.width < 10 \/ t.height < 10)

\* one entry of text_regions; `token` records the OCR entry it was built from
text_region(img, data, i) ==
    LET t     == data[i]
        x_min == Normalize(t.left, img.width)
        y_min == Normalize(t.top, img.height)
        x_max == Normalize(t.left + t.width, img.width)
        y_max == Normalize(t.top + t.height, img.height)
    IN  [text         |-> Strip(t.text),
         bounding_box |-> <<x_min, y_min, x_max, y_max>>,
         confidence   |-> t.conf,
         center_x     |-> (x_min + x_max) \div 2,
         center_y     |-> (y_min + y_max) \div 2,
         token        |-> i]

\* the try block: the regions built from the OCR engine's data
TextRegionsOf(img, data) ==
    LET idx  == [i \in 1..Len(data) |-> i]
        kept == SelectSeq(idx, LAMBDA i : TokenKept(data[i]))
    IN  [k \in 1..Len(kept) |-> text_region(img, data, kept[k])]

\* mutation: the exception of the OCR engine is not caught
detect_text_regions_uncaught(img, ocr) ==
    [raised |-> ocr.raises,
     value  |-> IF ocr.raises THEN <<>> ELSE TextRegionsOf(img, ocr.data)]

\* detect_text_regions: `except Exception: return []`; raised tells whether an
\* exception leaves the function
detect_text_regions(img, ocr) ==
    [raised |-> FALSE,
     value  |-> IF ocr.raises THEN <<>> ELSE TextRegionsOf(img, ocr.data)]

----------------------------------------------------------------------------
(* associate_text_with_rooms *)

max_distance == 150

\* (text_center_x - room_center_x) ** 2 + (text_center_y - room_center_y) ** 2;
\* distances are compared through their squares
Distance2(room, text) ==
    LET room_center_x == (room.bounding_box[1] + room.bounding_box[3]) \div 2
        room_center_y == (room.bounding_box[2] + room.bounding_box[4]) \div 2
    IN  (text.center_x - room_center_x) * (text.center_x - room_center_x)
        + (text.center_y - room_center_y) * (text.center_y - room_center_y)

text_in_room(room, text) ==
    /\ text.bounding_box[1] >= room.bounding_box[1] - 50
    /\ text.bounding_box[2] >= room.bounding_box[2] - 50
    /\ text.bounding_box[3] <= room.bounding_box[3] + 50
    /\ text.bounding_box[4] <= room.bounding_box[4] + 50

\* `text_in_room or distance <= max_distance`
Eligible(room, text) ==
    text_in_room(room, text) \/ Distance2(room, text) <= max_distance * max_distance

\* mutation: `distance <= best_distance`, the last of the nearest regions wins
RECURSIVE ScanTextLastWins(_, _, _, _)
ScanTextLastWins(room, sorted_text, i, best_idx) ==
    IF i > Len(sorted_text) THEN best_idx
    ELSE LET closer == \/ best_idx = 0
                       \/ Distance2(room, sorted_text[i]) <= Distance2(room, sorted_text[best_idx])
         IN  IF Eligible(room, sorted_text[i]) /\ closer
             THEN ScanTextLastWins(room, sorted_text, i + 1, i)
             ELSE ScanTextLastWins(room, sorted_text, i + 1, best_idx)

\* the inner for loop from position i; best_idx = 0 stands for best_text = None
\* and best_distance = inf
RECURSIVE ScanText(_, _, _, _)
ScanText(room, sorted_text, i, best_idx) ==
    IF i > Len(sorted_text) THEN best_idx
    ELSE LET closer == \/ best_idx = 0
                       \/ Distance2(room, sorted_text[i]) < Distance2(room, sorted_text[best_idx])
         IN  IF Eligible(room, sorted_text[i]) /\ closer
             THEN ScanText(room, sorted_text, i + 1, i)
             ELSE ScanText(room, sorted_text, i + 1, best_idx)

\* mutation: the used region stays in the pool
KeepUsed(sorted_text, best_text_idx) == sorted_text

\* sorted_text.pop(best_text_idx)
RemoveUsed(sorted_text, best_text_idx) == Pop(sorted_text, best_text_idx)

\* the outer for loop from room k: the room copies so far, and for each room
\* the token of the region it received (0 when none)
RECURSIVE AssociateLoop(_, _, _, _)
AssociateLoop(rs, k, sorted_text, acc) ==
    IF k > Len(rs) THEN acc
    ELSE LET room == rs[k]
             best == ScanText(room, sorted_text, 1, 0)
         IN  IF best # 0
             THEN AssociateLoop(rs, k + 1, RemoveUsed(sorted_text, best),
                      [copies |-> Append(acc.copies,
                                     [detected_name   |-> sorted_text[best].text,
                                      text_confidence |-> sorted_text[best].confidence] @@ room),
                       tokens |-> Append(acc.tokens, sorted_text[best].token)])
             ELSE AssociateLoop(rs, k + 1, sorted_text,
                      [copies |-> Append(acc.copies,
                                     [detected_name |-> None, text_confidence |-> 0] @@ room),
                       tokens |-> Append(acc.tokens, 0)])

\* the whole function, with the tokens used
Association(rs, regions) ==
    IF regions = <<>>
    THEN [copies |-> rs, tokens |-> [k \in 1..Len(rs) |-> 0]]
    ELSE AssociateLoop(rs, 1, SortedReverse(regions, "confidence"),
                       [copies |-> <<>>, tokens |-> <<>>])

associate_text_with_rooms(rs, regions) == Association(rs, regions).copies

----------------------------------------------------------------------------
(* detect_rooms: the result formatter *)

\* mutation: the naming threshold is inclusive
GoodOcrInclusive(text_confidence) == text_confidence >= 60

\* `text_confidence > 60`
GoodOcr(text_confidence) == text_confidence > 60

\* `detected_name and text_confidence > 60`
UseDetectedName(detected_name, text_confidence) ==
    detected_name # None /\ GoodOcr(text_confidence)

Chars(word) ==
    CASE word = "room"    -> <<"r","o","o","m">>
      [] word = "hallway" -> <<"h","a","l","l","w","a","y">>
      [] word = "Room"    -> <<"R","o","o","m">>
      [] word = "Hallway" -> <<"H","a","l","l","w","a","y">>

\* f'{kind}_{detected_name.lower().replace(" ", "_")}_{str(count).zfill(2)}'
NamedId(kind, detected_name, count) ==
    Chars(kind) \o <<"_">> \o ReplaceSpaces(Lower(detected_name)) \o <<"_">> \o ZFill(Str(count), 2)

\* f'{kind}_{str(count).zfill(3)}'
GenericId(kind, count) == Chars(kind) \o <<"_">> \o ZFill(Str(count), 3)

\* f'{Kind} {count}'
GenericName(kind, count) == Chars(kind) \o <<" ">> \o Str(count)

\* one iteration of `for room in rooms_with_text`, with the counters on entry:
\* the counters on exit and the room_result appended
FormatRoom(room, c) ==
    LET hallway         == Get(room, "is_hallway", FALSE)
        detected_name   == Get(room, "detected_name", None)
        text_confidence == Get(room, "text_confidence", 0)
        after           == IF hallway
                           THEN [c EXCEPT !.hallway_count = @ + 1]
                           ELSE [c EXCEPT !.room_count = @ + 1]
        count           == IF hallway THEN after.hallway_count ELSE after.room_count
        named           == UseDetectedName(detected_name, text_confidence)
        base            ==
            [id           |-> IF named
                              THEN NamedId(IF hallway THEN "hallway" ELSE "room",
                                           detected_name, count)
                              ELSE GenericId(IF hallway THEN "hallway" ELSE "room", count),
             bounding_box |-> room.bounding_box,
             name_hint    |-> IF named THEN detected_name
                              ELSE GenericName(IF hallway THEN "Hallway" ELSE "Room", count),
             confidence   |-> room.confidence]
    IN  [counts |-> after,
         result |-> IF detected_name # None
                    THEN [detected_name |-> detected_name,
                          text_confidence |-> text_confidence] @@ base
                    ELSE base]

----------------------------------------------------------------------------
(* Inputs *)

NumRequests == 2       \* requests served concurrently
MaxContours == 3       \* contours of a mask, in a request
MaxTokens == 2         \* entries of the OCR engine's data

Requests == 1..NumRequests

\* sequences without repetition, of length <= n
DistinctSeqsUpTo(S, n) ==
    {q \in SeqsUpTo(S, n) : \A i, j \in 1..Len(q) : i # j => q[i] # q[j]}

\* image shapes (width, height), in pixels
Shapes == {<<200, 100>>, <<160, 120>>}

\* contours: doubled area and bounding rectangle, inside every shape
Contour(area2, x, y, w, h) == [area2 |-> area2, x |-> x, y |-> y, w |-> w, h |-> h]

ContourMenu ==
    { Contour(6000, 0, 0, 64, 50),      \* a large room
      Contour(2400, 56, 10, 40, 30),    \* overlaps the large room
      Contour(3000, 60, 60, 90, 20),    \* elongated
      Contour(633, 120, 50, 20, 20),    \* small: confidence near the 0.8 threshold
      Contour(2400, 64, 0, 40, 40) }    \* next to the large room, same area as the overlapping one

\* a mask: its shape, its contours and their hierarchy
Image(shape, contours, parent) ==
    [width |-> shape[1], height |-> shape[2],
     contours |-> contours, hierarchy |-> Hierarchy(parent)]

\* masks whose contours are all top-level, or all nested in the first one
Images ==
    {Image(shape, cs, [i \in 1..Len(cs) |-> IF nested /\ i > 1 THEN 1 ELSE 0]) :
        shape \in Shapes, cs \in DistinctSeqsUpTo(ContourMenu, MaxContours),
        nested \in BOOLEAN}

Token(text, left, top, width, height, conf) ==
    [text |-> text, left |-> left, top |-> top, width |-> width, height |-> height,
     conf |-> conf]

TokenMenu ==
    { Token(<<"M","y"," ","K">>, 10, 10, 30, 12, 85),      \* inside the large room
      Token(<<" ","B","e","d"," ">>, 58, 10, 12, 12, 60),  \* across two adjacent rooms
      Token(<<"H","a","l","l">>, 70, 62, 30, 12, 45),      \* inside the elongated contour
      Token(<<"W","C">>, 12, 12, 8, 12, 90) }              \* narrower than 10 pixels

\* what the OCR engine does: it raises, or returns data
OcrOutcomes ==
    {[raises |-> TRUE, data |-> <<>>]}
    \cup {[raises |-> FALSE, data |-> d] : d \in DistinctSeqsUpTo(TokenMenu, MaxTokens)}

\* request options: each key may be absent
OptionsMenu ==
    {<<>>} \cup {[min_area |-> 1000]}
    \cup {[max_rooms |-> m] : m \in 0..1}
    \cup {[min_area |-> 1000, max_rooms |-> m] : m \in 0..1}

RequestInputs ==
    [image : Images, options : OptionsMenu, ocr : OcrOutcomes, download_ok : BOOLEAN]

Idle == [status |-> 0]

\* request 1 is served, any input
Init ==
    /\ \E input \in RequestInputs : req = [r \in Requests |-> input]
    /\ pc = [r \in Requests |-> IF r = 1 THEN "download" ELSE "idle"]
    /\ rooms = [r \in Requests |-> <<>>]
    /\ filtered_rooms = [r \in Requests |-> <<>>]
    /\ text_regions = [r \in Requests |-> <<>>]
    /\ rooms_with_text = [r \in Requests |-> <<>>]
    /\ result_rooms = [r \in Requests |-> <<>>]
    /\ counts = [r \in Requests |-> [room_count |-> 0, hallway_count |-> 0]]
    /\ response = [r \in Requests |-> Idle]
    /\ matched = [r \in Requests |-> <<>>]
    /\ unit = [pc |-> "none"]

----------------------------------------------------------------------------
(* detect_rooms_endpoint and detect_rooms, one request r *)

DEFAULT_MIN_AREA == 200
DEFAULT_MAX_ROOMS == 20
DEFAULT_MIN_CONFIDENCE == 80

\* the except branch of detect_rooms_endpoint
Fail(r) ==
    /\ pc' = [pc EXCEPT ![r] = "done"]
    /\ response' = [response EXCEPT ![r] = [status |-> 500]]

\* download_image: raises when the download fails
Download(r) ==
    /\ pc[r] = "download"
    /\ IF req[r].download_ok
       THEN pc' = [pc EXCEPT ![r] = "find"] /\ UNCHANGED response
       ELSE Fail(r)
    /\ UNCHANGED <<req, rooms, filtered_rooms, text_regions, rooms_with_text,
                   result_rooms, counts, matched, unit>>

\* preprocessing and wall extension give the mask; find_rooms_from_contours
FindRooms(r) ==
    /\ pc[r] = "find"
    /\ rooms' = [rooms EXCEPT ![r] =
                    find_rooms_from_contours(req[r].image,
                        Get(req[r].options, "min_area", DEFAULT_MIN_AREA))]
    /\ pc' = [pc EXCEPT ![r] = "rank"]
    /\ UNCHANGED <<req, filtered_rooms, text_regions, rooms_with_text,
                   result_rooms, counts, response, matched, unit>>

\* filter_and_rank_rooms(rooms, max_rooms=max_rooms)
FilterAndRank(r) ==
    /\ pc[r] = "rank"
    /\ filtered_rooms' = [filtered_rooms EXCEPT ![r] =
                    filter_and_rank_rooms(rooms[r],
                        Get(req[r].options, "max_rooms", DEFAULT_MAX_ROOMS),
                        DEFAULT_MIN_CONFIDENCE)]
    /\ pc' = [pc EXCEPT ![r] = "ocr"]
    /\ UNCHANGED <<req, rooms, text_regions, rooms_with_text,
                   result_rooms, counts, response, matched, unit>>

\* text_regions = detect_text_regions(image)
DetectText(r) ==
    /\ pc[r] = "ocr"
    /\ LET res == detect_text_regions(req[r].image, req[r].ocr)
       IN  IF res.raised
           THEN Fail(r) /\ UNCHANGED text_regions
           ELSE /\ text_regions' = [text_regions EXCEPT ![r] = res.value]
                /\ pc' = [pc EXCEPT ![r] = "associate"]
                /\ UNCHANGED response
    /\ UNCHANGED <<req, rooms, filtered_rooms, rooms_with_text,
                   result_rooms, counts, matched, unit>>

\* mutation: the counters are module-level globals, shared by all requests
SharedScope(r) == 1

\* the counters a request uses: its own locals
Scope(r) == r

\* rooms_with_text = associate_text_with_rooms(...); result_rooms = [];
\* room_count = 0; hallway_count = 0
Associate(r) ==
    /\ pc[r] = "associate"
    /\ LET a == Association(filtered_rooms[r], text_regions[r])
       IN  /\ rooms_with_text' = [rooms_with_text EXCEPT ![r] = a.copies]
           /\ matched' = [matched EXCEPT ![r] = a.tokens]
    /\ result_rooms' = [result_rooms EXCEPT ![r] = <<>>]
    /\ counts' = [counts EXCEPT ![Scope(r)] = [room_count |-> 0, hallway_count |-> 0]]
    /\ pc' = [pc EXCEPT ![r] = "format"]
    /\ UNCHANGED <<req, rooms, filtered_rooms, text_regions, response, unit>>

\* one iteration of `for room in rooms_with_text`
Format(r) ==
    /\ pc[r] = "format"
    /\ Len(result_rooms[r]) < Len(rooms_with_text[r])
    /\ LET f == FormatRoom(rooms_with_text[r][Len(result_rooms[r]) + 1], counts[Scope(r)])
       IN  /\ counts' = [counts EXCEPT ![Scope(r)] = f.counts]
           /\ result_rooms' = [result_rooms EXCEPT ![r] = Append(@, f.result)]
    /\ UNCHANGED <<pc, req, rooms, filtered_rooms, text_regions, rooms_with_text,
                   response, matched, unit>>

\* return result_rooms; jsonify({'rooms': rooms, 'count': len(rooms)})
Respond(r) ==
    /\ pc[r] = "format"
    /\ Len(result_rooms[r]) = Len(rooms_with_text[r])
    /\ response' = [response EXCEPT ![r] =
                       [status |-> 200, rooms |-> result_rooms[r],
                        count |-> Len(result_rooms[r])]]
    /\ pc' = [pc EXCEPT ![r] = "done"]
    /\ UNCHANGED <<req, rooms, filtered_rooms, text_regions, rooms_with_text,
                   result_rooms, counts, matched, unit>>

Next ==
    \E r \in Requests :
        \/ Download(r)
        \/ FindRooms(r)
        \/ FilterAndRank(r)
        \/ DetectText(r)
        \/ Associate(r)
        \/ Format(r)
        \/ Respond(r)

Spec == Init /\ [][Next]_vars

----------------------------------------------------------------------------
(* Concurrent requests: every request is served, over a few inputs *)

ConcImages ==
    { Image(<<200, 100>>, <<Contour(6000, 0, 0, 64, 50), Contour(2400, 64, 0, 40, 40)>>,
            <<0, 0>>),
      Image(<<200, 100>>, <<Contour(3000, 60, 60, 90, 20), Contour(6000, 0, 0, 64, 50)>>,
            <<0, 0>>) }

ConcOcr ==
    { [raises |-> FALSE, data |-> <<>>],
      [raises |-> FALSE, data |-> <<Token(<<"M","y"," ","K">>, 10, 10, 30, 12, 85)>>] }

ConcInputs ==
    [image : ConcImages, options : {<<>>}, ocr : ConcOcr, download_ok : {TRUE}]

InitConc ==
    /\ req \in [Requests -> ConcInputs]
    /\ pc = [r \in Requests |-> "download"]
    /\ rooms = [r \in Requests |-> <<>>]
    /\ filtered_rooms = [r \in Requests |-> <<>>]
    /\ text_regions = [r \in Requests |-> <<>>]
    /\ rooms_with_text = [r \in Requests |-> <<>>]
    /\ result_rooms = [r \in Requests |-> <<>>]
    /\ counts = [r \in Requests |-> [room_count |-> 0, hallway_count |-> 0]]
    /\ response = [r \in Requests |-> Idle]
    /\ matched = [r \in Requests |-> <<>>]
    /\ unit = [pc |-> "none"]

SpecConc == InitConc /\ [][Next]_vars

\* one request over masks whose contours lie around 1.5% and 25% of the image
SizeContourMenu ==
    { Contour(9610, 0, 0, 74, 65),      \* 25.03% of the image, box area 249942
      Contour(9600, 80, 60, 80, 60),    \* exactly 25%, box area 250000
      Contour(616, 80, 0, 20, 16),      \* 1.604%: confidence 0.8
      Contour(575, 110, 0, 20, 15),     \* 1.497%
      Contour(192, 140, 0, 10, 10) }    \* 0.5%

SizeImages ==
    {Image(<<160, 120>>, cs, [i \in 1..Len(cs) |-> IF nested /\ i > 1 THEN 1 ELSE 0]) :
        cs \in DistinctSeqsUpTo(SizeContourMenu, MaxContours), nested \in BOOLEAN}

SizeOptions == {<<>>, [min_area |-> 50], [min_area |-> 1000]}

SizeInputs ==
    [image : SizeImages, options : SizeOptions, ocr : ConcOcr, download_ok : BOOLEAN]

InitSize ==
    /\ \E input \in SizeInputs : req = [r \in Requests |-> input]
    /\ pc = [r \in Requests |-> IF r = 1 THEN "download" ELSE "idle"]
    /\ rooms = [r \in Requests |-> <<>>]
    /\ filtered_rooms = [r \in Requests |-> <<>>]
    /\ text_regions = [r \in Requests |-> <<>>]
    /\ rooms_with_text = [r \in Requests |-> <<>>]
    /\ result_rooms = [r \in Requests |-> <<>>]
    /\ counts = [r \in Requests |-> [room_count |-> 0, hallway_count |-> 0]]
    /\ response = [r \in Requests |-> Idle]
    /\ matched = [r \in Requests |-> <<>>]
    /\ unit = [pc |-> "none"]

SpecSize == InitSize /\ [][Next]_vars

----------------------------------------------------------------------------
(* Direct calls of find_rooms_from_contours *)

MaxSegContours == 4    \* contours of a mask, in a direct call

SegShapes == {<<200, 100>>}

SegContourMenu ==
    { Contour(12000, 0, 0, 120, 80),    \* 30% of the image
      Contour(4000, 10, 10, 50, 50),    \* 10% of the image
      Contour(600, 20, 20, 20, 16),     \* small
      Contour(1000, 0, 90, 160, 10),    \* thin, aspect ratio 16
      Contour(2000, 100, 0, 100, 20) }  \* corridor, aspect ratio 5

SegMinAreas == {200, 400}

\* forests: the parent of a contour is 0 or an earlier contour
ParentVectors(n) == {p \in [1..n -> 0..n] : \A j \in 1..n : p[j] < j}

\* no request is being served
PipelineIdle ==
    /\ req = [r \in Requests |-> [download_ok |-> FALSE]]
    /\ pc = [r \in Requests |-> "idle"]
    /\ rooms = [r \in Requests |-> <<>>]
    /\ filtered_rooms = [r \in Requests |-> <<>>]
    /\ text_regions = [r \in Requests |-> <<>>]
    /\ rooms_with_text = [r \in Requests |-> <<>>]
    /\ result_rooms = [r \in Requests |-> <<>>]
    /\ counts = [r \in Requests |-> [room_count |-> 0, hallway_count |-> 0]]
    /\ response = [r \in Requests |-> Idle]
    /\ matched = [r \in Requests |-> <<>>]

InitSeg ==
    /\ PipelineIdle
    /\ \E shape \in SegShapes, n \in 0..MaxSegContours, min_area \in SegMinAreas :
         \E cs \in [1..n -> SegContourMenu], parent \in ParentVectors(n) :
            unit = [pc |-> "call", image |-> Image(shape, cs, parent),
                    parent |-> parent, min_area |-> min_area]

\* rooms = find_rooms_from_contours(image, min_area=min_area)
SegCall ==
    /\ unit.pc = "call"
    /\ unit' = [pc |-> "returned", image |-> unit.image, parent |-> unit.parent,
                min_area |-> unit.min_area,
                out |-> find_rooms_from_contours(unit.image, unit.min_area)]
    /\ UNCHANGED pipeline_vars

NextSeg == SegCall

SpecSeg == InitSeg /\ [][NextSeg]_vars

----------------------------------------------------------------------------
(* Direct calls of filter_and_rank_rooms *)

MaxCandidates == 3     \* candidates in a direct call
MaxRoomsArg == 3       \* largest max_rooms argument

Candidate(box, area, confidence, hallway) ==
    [bounding_box |-> box, area |-> area, confidence |-> confidence, is_hallway |-> hallway]

\* candidates, in normalized coordinates
CandidateMenu ==
    { Candidate(<<0, 0, 400, 500>>, 4000, 95, FALSE),
      Candidate(<<300, 0, 500, 400>>, 1200, 90, FALSE),       \* half inside the first
      Candidate(<<350, 400, 850, 600>>, 1600, 85, TRUE),      \* exactly 5% inside the first
      Candidate(<<0, 0, 600, 500>>, 9000, 95, FALSE),         \* box area above 250000
      Candidate(<<700, 0, 900, 300>>, 1200, 80, FALSE),       \* disjoint, same area as the second
      Candidate(<<600, 700, 800, 900>>, 500, 79, FALSE),      \* below the default confidence
      Candidate(<<100, 600, 100, 700>>, 5000, 95, FALSE),     \* zero width
      Candidate(<<500, 500, 1000, 1000>>, 600, 90, FALSE),    \* large box, small contour
      Candidate(<<900, 900, 1000, 1000>>, 700, 90, FALSE) }   \* inside the previous box

MinConfidences == {50, 80}

InitRank ==
    /\ PipelineIdle
    /\ \E rs \in SeqsUpTo(CandidateMenu, MaxCandidates), max_rooms \in 0..MaxRoomsArg,
          min_confidence \in MinConfidences :
            unit = [pc |-> "call", rooms |-> rs, max_rooms |-> max_rooms,
                    min_confidence |-> min_confidence]

\* out = filter_and_rank_rooms(rooms, max_rooms, min_confidence)
RankCall ==
    /\ unit.pc = "call"
    /\ unit' = [pc |-> "returned", rooms |-> unit.rooms, max_rooms |-> unit.max_rooms,
                min_confidence |-> unit.min_confidence,
                out |-> filter_and_rank_rooms(unit.rooms, unit.max_rooms,
                                              unit.min_confidence)]
    /\ UNCHANGED pipeline_vars

\* again = filter_and_rank_rooms(out, max_rooms, min_confidence)
RankAgain ==
    /\ unit.pc = "returned"
    /\ unit' = [pc |-> "again", rooms |-> unit.rooms, max_rooms |-> unit.max_rooms,
                min_confidence |-> unit.min_confidence, out |-> unit.out,
                again |-> filter_and_rank_rooms(unit.out, unit.max_rooms,
                                                unit.min_confidence)]
    /\ UNCHANGED pipeline_vars

NextRank == RankCall \/ RankAgain

SpecRank == InitRank /\ [][NextRank]_vars

----------------------------------------------------------------------------
(* Direct calls of associate_text_with_rooms *)

MaxAssocRooms == 2     \* rooms in a direct call
MaxAssocTexts == 3     \* text regions in a direct call

\* ranked rooms, in normalized coordinates
AssocRoomMenu ==
    { Candidate(<<0, 0, 400, 500>>, 4000, 95, FALSE),
      Candidate(<<400, 0, 800, 500>>, 3000, 90, FALSE),       \* next to the first
      Candidate(<<820, 600, 900, 700>>, 800, 85, FALSE) }     \* small

Region(text, box, confidence) == [text |-> text, bounding_box |-> box, confidence |-> confidence]

\* OCR regions before they are numbered, in normalized coordinates
RegionMenu ==
    { Region(<<"a">>, <<150, 200, 250, 260>>, 50),    \* 20 above the first room's centre
      Region(<<"b">>, <<150, 240, 250, 300>>, 90),    \* 20 below it: same distance
      Region(<<"c">>, <<380, 200, 440, 300>>, 70),    \* across the first two rooms
      Region(<<"d">>, <<850, 800, 950, 900>>, 95),    \* far from every room
      Region(<<"e">>, <<700, 560, 1000, 760>>, 40) }  \* wider than the small room, centre near

\* text_regions as detect_text_regions builds them, entry i from OCR token i
NumberedRegions(q) ==
    [i \in 1..Len(q) |->
        [text         |-> q[i].text,
         bounding_box |-> q[i].bounding_box,
         confidence   |-> q[i].confidence,
         center_x     |-> (q[i].bounding_box[1] + q[i].bounding_box[3]) \div 2,
         center_y     |-> (q[i].bounding_box[2] + q[i].bounding_box[4]) \div 2,
         token        |-> i]]

InitAssoc ==
    /\ PipelineIdle
    /\ \E rs \in DistinctSeqsUpTo(AssocRoomMenu, MaxAssocRooms),
          q \in SeqsUpTo(RegionMenu, MaxAssocTexts) :
            unit = [pc |-> "call", rooms |-> rs, text_regions |-> NumberedRegions(q)]

\* out = associate_text_with_rooms(rooms, text_regions)
AssocCall ==
    /\ unit.pc = "call"
    /\ LET a == Association(unit.rooms, unit.text_regions)
       IN  unit' = [pc |-> "returned", rooms |-> unit.rooms,
                    text_regions |-> unit.text_regions,
                    out |-> associate_text_with_rooms(unit.rooms, unit.text_regions),
                    tokens |-> a.tokens]
    /\ UNCHANGED pipeline_vars

NextAssoc == AssocCall

SpecAssoc == InitAssoc /\ [][NextAssoc]_vars

----------------------------------------------------------------------------
(* extend_lines_for_open_plans: the segments it draws on the copy of the mask *)

DEFAULT_MAX_EXTENSION == 80

Abs(a) == IF a < 0 THEN -a ELSE a

\* a line is <<x1, y1, x2, y2>>; "Ensure left-to-right ordering"
LeftToRight(line) ==
    IF line[1] > line[3] THEN <<line[3], line[4], line[1], line[2]>> ELSE line

\* "Ensure top-to-bottom ordering"
TopToBottom(line) ==
    IF line[2] > line[4] THEN <<line[3], line[4], line[1], line[2]>> ELSE line

\* the cv2.line calls of the first pair of loops: line1 = lines[i] and
\* line2 = lines[j] with j after i; i and j are kept for the claims
horizontal_extensions(lines, max_gap, max_extension) ==
    { [from |-> <<LeftToRight(lines[p[1]])[3],
                  (LeftToRight(lines[p[1]])[2] + LeftToRight(lines[p[1]])[4]) \div 2>>,
       to   |-> <<LeftToRight(lines[p[1]])[3]
                    + Min(LeftToRight(lines[p[2]])[1] - LeftToRight(lines[p[1]])[3], max_extension),
                  (LeftToRight(lines[p[2]])[2] + LeftToRight(lines[p[2]])[4]) \div 2>>,
       i |-> p[1], j |-> p[2]] :
      p \in { q \in (1..Len(lines)) \X (1..Len(lines)) :
                LET l1 == LeftToRight(lines[q[1]])
                    l2 == LeftToRight(lines[q[2]])
                    avg_y1 == (l1[2] + l1[4]) \div 2
                    avg_y2 == (l2[2] + l2[4]) \div 2
                    gap == l2[1] - l1[3]
                IN  /\ q[2] > q[1]
                    /\ Abs(avg_y1 - avg_y2) < 15
                    /\ l2[1] > l1[3]
                    /\ 0 < gap /\ gap < max_gap } }

\* the cv2.line calls of the second pair of loops
vertical_extensions(lines, max_gap, max_extension) ==
    { [from |-> <<(TopToBottom(lines[p[1]])[1] + TopToBottom(lines[p[1]])[3]) \div 2,
                  TopToBottom(lines[p[1]])[4]>>,
       to   |-> <<(TopToBottom(lines[p[2]])[1] + TopToBottom(lines[p[2]])[3]) \div 2,
                  TopToBottom(lines[p[1]])[4]
                    + Min(TopToBottom(lines[p[2]])[2] - TopToBottom(lines[p[1]])[4], max_extension)>>,
       i |-> p[1], j |-> p[2]] :
      p \in { q \in (1..Len(lines)) \X (1..Len(lines)) :
                LET l1 == TopToBottom(lines[q[1]])
                    l2 == TopToBottom(lines[q[2]])
                    avg_x1 == (l1[1] + l1[3]) \div 2
                    avg_x2 == (l2[1] + l2[3]) \div 2
                    gap == l2[2] - l1[4]
                IN  /\ q[2] > q[1]
                    /\ Abs(avg_x1 - avg_x2) < 15
                    /\ l2[2] > l1[4]
                    /\ 0 < gap /\ gap < max_gap } }

extend_lines_for_open_plans(horizontal_lines, vertical_lines, max_gap, max_extension) ==
    [horizontal |-> horizontal_extensions(horizontal_lines, max_gap, max_extension),
     vertical   |-> vertical_extensions(vertical_lines, max_gap, max_extension)]

MaxLines == 2     \* lines of one orientation in a call

HorizontalLineMenu ==
    { <<0, 10, 80, 10>>,        \* left wall piece
      <<150, 12, 100, 8>>,      \* 20 to its right, listed right-to-left
      <<240, 20, 300, 22>>,     \* 90 further right, midline 11 lower
      <<100, 40, 160, 40>> }    \* another wall, 30 lower

VerticalLineMenu ==
    { <<10, 0, 10, 60>>,
      <<14, 140, 12, 90>>,      \* 30 below, listed bottom-to-top
      <<10, 189, 10, 250>>,     \* 49 below the second
      <<60, 70, 60, 120>> }     \* another wall

MaxGaps == {50, 100}

InitLines ==
    /\ PipelineIdle
    /\ \E hs \in SeqsUpTo(HorizontalLineMenu, MaxLines),
          vs \in SeqsUpTo(VerticalLineMenu, MaxLines),
          g \in MaxGaps :
            unit = [pc |-> "call", horizontal_lines |-> hs, vertical_lines |-> vs,
                    max_gap |-> g]

\* enhanced = extend_lines_for_open_plans(binary, horizontal_lines, vertical_lines, max_gap)
LinesCall ==
    /\ unit.pc = "call"
    /\ unit' = [pc |-> "returned", horizontal_lines |-> unit.horizontal_lines,
                vertical_lines |-> unit.vertical_lines, max_gap |-> unit.max_gap,
                out |-> extend_lines_for_open_plans(unit.horizontal_lines, unit.vertical_lines,
                                                    unit.max_gap, DEFAULT_MAX_EXTENSION)]
    /\ UNCHANGED pipeline_vars

NextLines == LinesCall

SpecLines == InitLines /\ [][NextLines]_vars

----------------------------------------------------------------------------
(* Claims *)

Returned == unit.pc \in {"returned", "again"}

\* the intersection of two boxes is at most 5% of the area of either
WithinFivePercent(a, b) ==
    /\ 20 * InterArea(a, b) <= BoxArea(a)
    /\ 20 * InterArea(a, b) <= BoxArea(b)

\* a candidate of the input that passes the filters and is not in the output
Dropped(r, out) ==
    /\ IsConfident(r, unit.min_confidence)
    /\ SizeOk(r)
    /\ BoxArea(r.bounding_box) # 0
    /\ \A k \in 1..Len(out) : out[k] # r

\* C1: any two distinct rooms returned by filter_and_rank_rooms have a
\* bounding-box intersection of at most 5% of the first room's box area and
\* at most 5% of the second room's box area.
C1_NoOverlapAboveFivePercent ==
    Returned =>
        \A i, j \in 1..Len(unit.out) :
            i # j => WithinFivePercent(unit.out[i].bounding_box, unit.out[j].bounding_box)

\* two returned rooms touch each other (within 5%), and a candidate was
\* rejected although max_rooms was not reached
C1_Witness ==
    /\ unit.pc = "returned"
    /\ Len(unit.out) < unit.max_rooms
    /\ \E i, j \in 1..Len(unit.out) :
          i # j /\ InterArea(unit.out[i].bounding_box, unit.out[j].bounding_box) > 0
    /\ \E k \in 1..Len(unit.rooms) : Dropped(unit.rooms[k], unit.out)

Ranked(r) == pc[r] \in {"ocr", "associate", "format", "done"} /\ req[r].download_ok

\* C2: for every max_rooms >= 0 supplied through the request options,
\* filter_and_rank_rooms returns at most max_rooms candidates.
C2_AtMostMaxRooms ==
    \A r \in Requests :
        Ranked(r) =>
            Len(filtered_rooms[r]) <= Get(req[r].options, "max_rooms", DEFAULT_MAX_ROOMS)

Answered(r) == pc[r] = "done" /\ response[r].status = 200

\* C3: every candidate of find_rooms_from_contours has a confidence in
\* [0, 1] (0..100 hundredths), and no candidate below min_confidence (0.8)
\* is in the output of filter_and_rank_rooms or in the response.
C3_ConfidenceFilter ==
    \A r \in Requests :
        /\ \A k \in 1..Len(rooms[r]) :
              rooms[r][k].confidence >= 0 /\ rooms[r][k].confidence <= 100
        /\ \A k \in 1..Len(filtered_rooms[r]) :
              filtered_rooms[r][k].confidence >= DEFAULT_MIN_CONFIDENCE
        /\ Answered(r) =>
              \A k \in 1..Len(response[r].rooms) :
                  response[r].rooms[k].confidence >= DEFAULT_MIN_CONFIDENCE

\* a request is answered with a room while a candidate below 0.8 was found
C3_Witness ==
    \E r \in Requests :
        /\ Answered(r)
        /\ response[r].count >= 1
        /\ \E k \in 1..Len(rooms[r]) : rooms[r][k].confidence < DEFAULT_MIN_CONFIDENCE

Associated(r) == pc[r] = "format" \/ Answered(r)

\* the text region built from OCR entry `token`
RegionOf(r, token) ==
    text_regions[r][CHOOSE t \in 1..Len(text_regions[r]) : text_regions[r][t].token = token]

\* C4: associate_text_with_rooms attaches at most one text region to each
\* room and never the same region to two rooms, and each room's
\* detected_name is absent (or None) or the text of one input text region.
C4_OneRegionPerRoom ==
    \A r \in Requests :
        Associated(r) =>
            /\ Len(rooms_with_text[r]) = Len(filtered_rooms[r])
            /\ Len(matched[r]) = Len(filtered_rooms[r])
            /\ \A i, j \in 1..Len(matched[r]) :
                  (i # j /\ matched[r][i] # 0) => matched[r][i] # matched[r][j]
            /\ \A k \in 1..Len(matched[r]) :
                  LET name == Get(rooms_with_text[r][k], "detected_name", None)
                  IN  IF matched[r][k] = 0
                      THEN name = None
                      ELSE /\ Cardinality({t \in 1..Len(text_regions[r]) :
                                  text_regions[r][t].token = matched[r][k]}) = 1
                           /\ name = RegionOf(r, matched[r][k]).text

\* a region went to one room although a later room was eligible for it too
C4_Witness ==
    \E r \in Requests :
        /\ Associated(r)
        /\ \E i, j \in 1..Len(matched[r]) :
              /\ i < j
              /\ matched[r][i] # 0
              /\ Eligible(filtered_rooms[r][j], RegionOf(r, matched[r][i]))

ValidBox(b) ==
    /\ 0 <= b[1] /\ b[1] < b[3] /\ b[3] <= 1000
    /\ 0 <= b[2] /\ b[2] < b[4] /\ b[4] <= 1000

C6_Idempotent == unit.pc = "again" => unit.again = unit.out

\* the second call ran on an output that dropped a candidate and holds two
\* rooms of equal area
C6_Witness ==
    /\ unit.pc = "again"
    /\ \E k \in 1..Len(unit.rooms) : Dropped(unit.rooms[k], unit.out)
    /\ \E i, j \in 1..Len(unit.out) : i # j /\ unit.out[i].area = unit.out[j].area

\* needle occurs in hay
Contains(hay, needle) ==
    \E i \in 0..(Len(hay) - Len(needle)) : SubSeq(hay, i + 1, i + Len(needle)) = needle

\* the 1-based number of room k within its class (rooms or hallways)
ClassNumber(rs, k) == Cardinality({j \in 1..k : rs[j].is_hallway = rs[k].is_hallway})

HasOcrInfo(res) == "detected_name" \in DOMAIN res \/ "text_confidence" \in DOMAIN res

IsGeneric(res, hallway, n) ==
    /\ res.name_hint = GenericName(IF hallway THEN "Hallway" ELSE "Room", n)
    /\ res.id = GenericId(IF hallway THEN "hallway" ELSE "room", n)

C8_OcrFailureRecovered ==
    \A r \in Requests :
        (pc[r] = "done" /\ req[r].download_ok /\ req[r].ocr.raises) =>
            /\ response[r].status = 200
            /\ text_regions[r] = <<>>
            /\ Len(response[r].rooms) = Len(filtered_rooms[r])
            /\ \A k \in 1..Len(filtered_rooms[r]) :
                  LET res == response[r].rooms[k]
                  IN  /\ res.bounding_box = filtered_rooms[r][k].bounding_box
                      /\ res.confidence = filtered_rooms[r][k].confidence
                      /\ IsGeneric(res, filtered_rooms[r][k].is_hallway,
                                   ClassNumber(filtered_rooms[r], k))
                      /\ ~HasOcrInfo(res)

\* a request whose OCR raised is answered with a room and a hallway
C8_Witness ==
    \E r \in Requests :
        /\ Answered(r)
        /\ req[r].ocr.raises
        /\ \E a, b \in 1..Len(filtered_rooms[r]) :
              filtered_rooms[r][a].is_hallway /\ ~filtered_rooms[r][b].is_hallway

\* the for loop of the formatter, run alone from counters c
RECURSIVE FormatFrom(_, _, _, _)
FormatFrom(rs, k, c, acc) ==
    IF k > Len(rs) THEN acc
    ELSE LET f == FormatRoom(rs[k], c)
         IN  FormatFrom(rs, k + 1, f.counts, Append(acc, f.result))

\* what detect_rooms returns for an input when it runs alone
Alone(input) ==
    LET found  == find_rooms_from_contours(input.image,
                      Get(input.options, "min_area", DEFAULT_MIN_AREA))
        ranked == filter_and_rank_rooms(found,
                      Get(input.options, "max_rooms", DEFAULT_MAX_ROOMS),
                      DEFAULT_MIN_CONFIDENCE)
        texts  == detect_text_regions(input.image, input.ocr).value
    IN  FormatFrom(associate_text_with_rooms(ranked, texts), 1,
                   [room_count |-> 0, hallway_count |-> 0], <<>>)

\* C9: under any interleaving of requests, the rooms each request has
\* formatted so far, and its response, are those it produces when it runs
\* alone on its own image and options: counters restart at 1 and are not
\* shared.
C9_RequestsIndependent ==
    \A r \in Requests :
        /\ pc[r] = "format" =>
              result_rooms[r] = SubSeq(Alone(req[r]), 1, Len(result_rooms[r]))
        /\ pc[r] = "done" =>
              response[r] = [status |-> 200, rooms |-> Alone(req[r]),
                             count |-> Len(Alone(req[r]))]

\* one request has answered with two rooms while another, on a different
\* input, is between its first and second room
C9_Witness ==
    \E r1, r2 \in Requests :
        /\ req[r1] # req[r2]
        /\ Answered(r1) /\ response[r1].count = 2
        /\ pc[r2] = "format"
        /\ Len(result_rooms[r2]) = 1 /\ Len(rooms_with_text[r2]) = 2

\* children of contour i in the mask of a direct call
Kids(i) == {j \in 1..Len(unit.parent) : unit.parent[j] = i}

KidsArea2(i) ==
    SeqSum([j \in 1..Len(unit.parent) |->
               IF unit.parent[j] = i THEN unit.image.contours[j].area2 ELSE 0])

\* at least 3 children, area above 5 x min_area, children above 40% of the area
ManyChildren(i) ==
    /\ Cardinality(Kids(i)) >= 3
    /\ unit.image.contours[i].area2 > 10 * unit.min_area
    /\ 5 * KidsArea2(i) > 2 * unit.image.contours[i].area2

\* area above 25% of the image area
Huge(i) == 2 * unit.image.contours[i].area2 > unit.image.width * unit.image.height

Absent(i) == \A k \in 1..Len(unit.out) : unit.out[k].contour # i

\* C10 as stated: a contour is rejected when it has at least 3 children,
\* area above 5 x min_area and children above 40% of its area, and also
\* whenever its area exceeds 25% of the image, with or without children.
C10_AsClaimed ==
    unit.pc = "returned" =>
        \A i \in 1..Len(unit.image.contours) : (ManyChildren(i) \/ Huge(i)) => Absent(i)

\* C10 amended: a contour is rejected when it has at least 3 children, area
\* above 5 x min_area and children above 40% of its area, and also when it
\* has at least one child and its area exceeds 25% of the image.
C10_ContainerRejected ==
    unit.pc = "returned" =>
        \A i \in 1..Len(unit.image.contours) :
            (ManyChildren(i) \/ (Kids(i) # {} /\ Huge(i))) => Absent(i)

\* a contour below 25% of the image was rejected for its three children
C10_Witness ==
    /\ unit.pc = "returned"
    /\ \E i \in 1..Len(unit.image.contours) : ManyChildren(i) /\ ~Huge(i) /\ Absent(i)

\* the regions not attached to a room before room k (token = position)
Unassigned(k) ==
    {t \in 1..Len(unit.text_regions) : \A j \in 1..(k - 1) : unit.tokens[j] # t}

EligibleFor(k) == {t \in Unassigned(k) : Eligible(unit.rooms[k], unit.text_regions[t])}

\* t comes before u in the confidence-sorted list
SortedBefore(t, u) ==
    \/ unit.text_regions[t].confidence > unit.text_regions[u].confidence
    \/ /\ unit.text_regions[t].confidence = unit.text_regions[u].confidence
       /\ t < u

\* C11: each room receives, among the unassigned eligible regions (inside the
\* box widened by 50, or centre distance <= 150), the one nearest to its
\* centre; among equally near ones the one earlier in the confidence-sorted
\* list (higher OCR confidence); an ineligible region is never attached and a
\* room stays without text only when no unassigned region is eligible.
C11_NearestEligibleWins ==
    unit.pc = "returned" =>
        \A k \in 1..Len(unit.rooms) :
            LET t == unit.tokens[k]
            IN  IF EligibleFor(k) = {}
                THEN t = 0 /\ Get(unit.out[k], "detected_name", None) = None
                ELSE /\ t \in EligibleFor(k)
                     /\ unit.out[k].detected_name = unit.text_regions[t].text
                     /\ unit.out[k].text_confidence = unit.text_regions[t].confidence
                     /\ \A u \in EligibleFor(k) \ {t} :
                           \/ Distance2(unit.rooms[k], unit.text_regions[t])
                                < Distance2(unit.rooms[k], unit.text_regions[u])
                           \/ /\ Distance2(unit.rooms[k], unit.text_regions[t])
                                   = Distance2(unit.rooms[k], unit.text_regions[u])
                              /\ SortedBefore(t, u)

\* a room received the more confident of two equally near regions although
\* the other came first in the input, while an ineligible region was left
C11_Witness ==
    /\ unit.pc = "returned"
    /\ \E k \in 1..Len(unit.rooms) :
          /\ unit.tokens[k] # 0
          /\ \E u \in EligibleFor(k) :
                /\ u < unit.tokens[k]
                /\ Distance2(unit.rooms[k], unit.text_regions[u])
                     = Distance2(unit.rooms[k], unit.text_regions[unit.tokens[k]])
                /\ unit.text_regions[u].confidence
                     < unit.text_regions[unit.tokens[k]].confidence
          /\ \E v \in Unassigned(k) : v \notin EligibleFor(k)

\* the gap from the trailing endpoint of a to the leading endpoint of b
HorizontalGap(a, b) == Min(b[1], b[3]) - Max(a[1], a[3])

VerticalGap(a, b) == Min(b[2], b[4]) - Max(a[2], a[4])

\* the unordered pair a, b of horizontal lines is to be bridged
HorizontalPairToBridge(a, b, max_gap) ==
    /\ Abs((a[2] + a[4]) \div 2 - (b[2] + b[4]) \div 2) < 15
    /\ \/ 0 < HorizontalGap(a, b) /\ HorizontalGap(a, b) < max_gap
       \/ 0 < HorizontalGap(b, a) /\ HorizontalGap(b, a) < max_gap

VerticalPairToBridge(a, b, max_gap) ==
    /\ Abs((a[1] + a[3]) \div 2 - (b[1] + b[3]) \div 2) < 15
    /\ \/ 0 < VerticalGap(a, b) /\ VerticalGap(a, b) < max_gap
       \/ 0 < VerticalGap(b, a) /\ VerticalGap(b, a) < max_gap

\* C12: a segment is drawn for every unordered pair of same-orientation lines
\* whose midlines differ by less than 15 and where one line ends before the
\* other begins with 0 < gap < max_gap, whichever of the two is listed first,
\* and for no other pair.
C12_EveryAlignedPairBridged ==
    unit.pc = "returned" =>
        /\ \A i, j \in 1..Len(unit.horizontal_lines) :
              i < j =>
                ( HorizontalPairToBridge(unit.horizontal_lines[i], unit.horizontal_lines[j],
                                         unit.max_gap)
                  <=> \E e \in unit.out.horizontal : e.i = i /\ e.j = j )
        /\ \A i, j \in 1..Len(unit.vertical_lines) :
              i < j =>
                ( VerticalPairToBridge(unit.vertical_lines[i], unit.vertical_lines[j],
                                       unit.max_gap)
                  <=> \E e \in unit.out.vertical : e.i = i /\ e.j = j )

\* contour i passed the area filter and the container filter
PassedFilters(i) ==
    /\ unit.image.contours[i].area2 >= 2 * unit.min_area
    /\ unit.image.contours[i].area2 <= 2 * DefaultMaxArea(unit.image)
    /\ ~should_skip(unit.image, i, unit.min_area)

LongSide(i) == Max(unit.image.contours[i].w, unit.image.contours[i].h)

ShortSide(i) == Min(unit.image.contours[i].w, unit.image.contours[i].h)

\* aspect_ratio > 3 and area > 2 x min_area
HallwayShaped(i) ==
    /\ ShortSide(i) > 0
    /\ LongSide(i) > 3 * ShortSide(i)
    /\ unit.image.contours[i].area2 > 4 * unit.min_area

\* aspect_ratio > 15
Sliver(i) == ShortSide(i) > 0 /\ LongSide(i) > 15 * ShortSide(i)

ReturnedAs(i, hallway) ==
    /\ Cardinality({k \in 1..Len(unit.out) : unit.out[k].contour = i}) = 1
    /\ \A k \in 1..Len(unit.out) : unit.out[k].contour = i => unit.out[k].is_hallway = hallway

BeatenByLarger(r, out) ==
    \E k \in 1..Len(out) :
        /\ out[k].area >= r.area
        /\ ~WithinFivePercent(r.bounding_box, out[k].bounding_box)

\* C14: the output of filter_and_rank_rooms is ordered by raw area, largest
\* first, and every candidate that passes the confidence filter and the
\* 250,000 filter, has a non-zero box area and is absent from the output
\* overlaps by more than 5% a returned room at least as large, or was cut off
\* when max_rooms rooms had been accepted.
C14_MaximalForLargerRooms ==
    Returned =>
        /\ \A i, j \in 1..Len(unit.out) : i < j => unit.out[i].area >= unit.out[j].area
        /\ \A k \in 1..Len(unit.rooms) :
              Dropped(unit.rooms[k], unit.out) =>
                 \/ BeatenByLarger(unit.rooms[k], unit.out)
                 \/ Len(unit.out) >= unit.max_rooms

\* one candidate was dropped for its overlap with a larger returned room
\* while the output had room left, after a larger candidate listed later
\* was returned before a smaller one
C14_Witness ==
    /\ unit.pc = "returned"
    /\ Len(unit.out) >= 2
    /\ Len(unit.out) < unit.max_rooms
    /\ \E k \in 1..Len(unit.rooms) :
          /\ Dropped(unit.rooms[k], unit.out)
          /\ BeatenByLarger(unit.rooms[k], unit.out)
    /\ \E a, b \in 1..Len(unit.rooms) :
          /\ a < b
          /\ unit.rooms[a].area < unit.rooms[b].area
          /\ unit.out[1] = unit.rooms[b]
          /\ unit.out[2] = unit.rooms[a]

\* a candidate that overlaps no returned room was cut off by max_rooms
C14_CutOff ==
    /\ unit.pc = "returned"
    /\ unit.max_rooms >= 1
    /\ \E k \in 1..Len(unit.rooms) :
          /\ Dropped(unit.rooms[k], unit.out)
          /\ ~BeatenByLarger(unit.rooms[k], unit.out)

\* the pixel area of contour i of request r is below 1.5% of the image area
BelowBand(r, i) ==
    100 * req[r].image.contours[i].area2 < 3 * req[r].image.width * req[r].image.height

\* the pixel area of contour i of request r is above 25% of the image area
AboveBand(r, i) ==
    2 * req[r].image.contours[i].area2 > req[r].image.width * req[r].image.height

\* C15: with the default min_confidence of 0.8, no contour whose pixel area
\* is below 1.5% or above 25% of the image area is among the ranked rooms,
\* and the rooms of the response of detect_rooms are the ranked rooms, one
\* for one, whatever min_area is requested.
C15_SizeBand ==
    \A r \in Requests :
        /\ \A k \in 1..Len(filtered_rooms[r]) :
              /\ ~BelowBand(r, filtered_rooms[r][k].contour)
              /\ ~AboveBand(r, filtered_rooms[r][k].contour)
        /\ Answered(r) =>
              /\ Len(response[r].rooms) = Len(filtered_rooms[r])
              /\ \A k \in 1..Len(response[r].rooms) :
                    /\ response[r].rooms[k].bounding_box = filtered_rooms[r][k].bounding_box
                    /\ response[r].rooms[k].bounding_box
                         = bounding_box(req[r].image,
                                        req[r].image.contours[filtered_rooms[r][k].contour])

\* a request with min_area 50 is answered with a room while a candidate
\* below 1.5% and a candidate above 25% of the image were found
C15_Witness ==
    \E r \in Requests :
        /\ Answered(r)
        /\ response[r].count >= 1
        /\ Get(req[r].options, "min_area", DEFAULT_MIN_AREA) = 50
        /\ \E k \in 1..Len(rooms[r]) : BelowBand(r, rooms[r][k].contour)
        /\ \E k \in 1..Len(rooms[r]) : AboveBand(r, rooms[r][k].contour)

====
